---- MODULE Spec2Model ----
(***************************************************************************)
(* Model of create-icons.py: a straight-line script that draws two icons   *)
(* (192x192 and 512x512), saves them as PNG files and prints one line.     *)
(*                                                                         *)
(* A canvas is followed at six sample pixels (see SamplePos).  Every       *)
(* library call may raise; only the scalable-font load sits in a           *)
(* try/except.  The script is run up to MaxRuns times in succession on the *)
(* same directory.                                                         *)
(***************************************************************************)
EXTENDS Integers, FiniteSets, Sequences, TLC

\* ---------------------------------------------------------------- bounds
\* number of successive runs of the script on the same directory
MaxRuns == 2
\* pixel size of the glyphs of the library's default font
MaxDefaultGlyph == 10

\* ------------------------------------------------------------- constants
Size192 == 192
Size512 == 512
FontSize192 == 60
FontSize512 == 160
BG == "#6b21a8"
WHITE == "white"
GlyphFill == "#6b21a8"
Box192 == <<64, 64, 128, 128>>
\* a box that is not centred on the 512 canvas
Box512_typo == <<170, 170, 340, 340>>
Box512 == <<170, 170, 342, 342>>
Anchor192 == <<96, 96>>
Anchor512 == <<256, 256>>
Path192 == "public/icons/icon-192x192.png"
Path512 == "public/icons/icon-512x512.png"
Message == "Icons created successfully!"

Paths == {Path192, Path512}
Passes == {Size192, Size512}

\* ------------------------------------------------------- sampled pixels
SampleNames == {"corner", "far", "center", "boxCorner", "edge", "outside"}

\* Position of a sample pixel on a canvas of width w and height h: the two
\* corners, the centre, and three pixels a third of the way in (the corner
\* of the circle's bounding box, the leftmost pixel of the circle, and the
\* pixel left of it).
SamplePos(name, w, h) ==
    CASE name = "corner"    -> <<0, 0>>
      [] name = "far"       -> <<w - 1, h - 1>>
      [] name = "center"    -> <<w \div 2, h \div 2>>
      [] name = "boxCorner" -> <<w \div 3, h \div 3>>
      [] name = "edge"      -> <<w \div 3, h \div 2>>
      [] name = "outside"   -> <<(w \div 3) - 1, h \div 2>>

Abs(n) == IF n < 0 THEN -n ELSE n

\* p lies inside the bounding box (both ends inclusive)
InBox(p, box) ==
    /\ box[1] <= p[1] /\ p[1] <= box[3]
    /\ box[2] <= p[2] /\ p[2] <= box[4]

\* p lies inside the ellipse inscribed in box (coordinates doubled so that
\* the centre is integral)
InEllipse(p, box) ==
    /\ InBox(p, box)
    /\ LET a  == box[3] - box[1]
           b  == box[4] - box[2]
           dx == 2 * p[1] - (box[1] + box[3])
           dy == 2 * p[2] - (box[2] + box[4])
       IN  dx * dx * b * b + dy * dy * a * a <= a * a * b * b

\* ---------------------------------------------------------------- values
NoBox == <<0, 0, 0, 0>>
NoPx == [n \in SampleNames |-> "none"]
NoImg == [w |-> 0, h |-> 0, px |-> NoPx, box |-> NoBox]
NoFont == [kind |-> "none", size |-> 0, pass |-> 0]

Absent == [kind |-> "absent", img |-> NoImg]
Old == [kind |-> "old", img |-> NoImg]
Partial == [kind |-> "partial", img |-> NoImg]
Png(img) == [kind |-> "png", img |-> img]

Exists(file) == file.kind # "absent"
Existing(d) == {p \in Paths : Exists(d[p])}

\* the font faces of the environment: the scalable font at the two sizes
\* the script asks for, and the default font
Faces == {<<"truetype", FontSize192>>, <<"truetype", FontSize512>>,
          <<"default", MaxDefaultGlyph>>}
Face(font) == <<font.kind, font.size>>

VARIABLES pc, img192, img512, font, disk, stdout,
          ink, run, wrote, failed, fell, glyphFont, disk0, prev

vars == <<pc, img192, img512, font, disk, stdout,
          ink, run, wrote, failed, fell, glyphFont, disk0, prev>>

\* ------------------------------------------------------ library calls
\* the fill colour is dropped: the library's default fill is black
NewImage_black(w, h, color) ==
    [w |-> w, h |-> h, px |-> [n \in SampleNames |-> "black"], box |-> NoBox]

\* Image.new('RGB', (w, h), color): every pixel has the fill colour
NewImage(w, h, color) ==
    [w |-> w, h |-> h, px |-> [n \in SampleNames |-> color], box |-> NoBox]

\* the circle is not filled
Ellipse_skip(img, box, fill) == [img EXCEPT !.box = box]

\* draw.ellipse(box, fill): the pixels inside the inscribed ellipse take the
\* fill colour, the others and the dimensions are left alone
Ellipse(img, box, fill) ==
    [img EXCEPT
       !.px = [n \in SampleNames |->
                 IF InEllipse(SamplePos(n, img.w, img.h), box)
                 THEN fill ELSE img.px[n]],
       !.box = box]

\* The pixels a glyph of font f drawn at xy can reach.  anchor='mm' centres
\* a scalable font's glyph on xy: it reaches half its size in each
\* direction.  The default font may lack anchor support and then draws the
\* glyph with xy as a corner: it reaches its whole size.
InReach(f, xy, p) ==
    LET reach == IF f.kind = "truetype" THEN f.size \div 2 ELSE f.size
    IN  /\ Abs(p[1] - xy[1]) <= reach
        /\ Abs(p[2] - xy[2]) <= reach

\* draw.text(xy, 'T', fill, font, anchor='mm'): the pixels the glyph covers
\* take the fill colour.  solid says whether the glyph of this face covers
\* the sampled pixels in its reach (the stem of a T passes through its
\* middle) or none of them.
Text(img, xy, fill, f, solid) ==
    [img EXCEPT
       !.px = [n \in SampleNames |->
                 IF solid /\ InReach(f, xy, SamplePos(n, img.w, img.h))
                 THEN fill ELSE img.px[n]]]

\* what a reader of the directory observes of one file
Observe1(file) ==
    [kind |-> file.kind, w |-> file.img.w, h |-> file.img.h,
     corner |-> file.img.px["corner"], center |-> file.img.px["center"]]
Observe(d) == [p \in Paths |-> Observe1(d[p])]

NoGlyphs == [s \in Passes |-> NoFont]
NoPrev == [valid |-> FALSE, obs |-> Observe([p \in Paths |-> Absent]),
           fonts |-> NoGlyphs]

\* ------------------------------------------------------------------ Init
Init ==
    /\ pc = "import"
    /\ img192 = NoImg
    /\ img512 = NoImg
    /\ font = NoFont
    /\ disk \in [Paths -> {Absent, Old}]
    /\ stdout = <<>>
    /\ ink \in [Faces -> BOOLEAN]
    /\ run = 1
    /\ wrote = {}
    /\ failed = "none"
    /\ fell = {}
    /\ glyphFont = NoGlyphs
    /\ disk0 = disk
    /\ prev = NoPrev

\* an exception nobody catches: the run ends at this step
Raise(step) ==
    /\ pc' = "error"
    /\ failed' = step

Goto(next) ==
    /\ pc' = next
    /\ failed' = failed

\* lines 1-2: the imports
Import ==
    /\ pc = "import"
    /\ \E ok \in BOOLEAN : IF ok THEN Goto("new192") ELSE Raise("import")
    /\ UNCHANGED <<img192, img512, font, disk, stdout, ink, run, wrote,
                   fell, glyphFont, disk0, prev>>

\* line 5
New192 ==
    /\ pc = "new192"
    /\ \E ok \in BOOLEAN :
         IF ok THEN /\ img192' = NewImage(Size192, Size192, BG)
                    /\ Goto("draw192")
               ELSE /\ img192' = img192
                    /\ Raise("new192")
    /\ UNCHANGED <<img512, font, disk, stdout, ink, run, wrote,
                   fell, glyphFont, disk0, prev>>

\* line 6
Draw192 ==
    /\ pc = "draw192"
    /\ \E ok \in BOOLEAN : IF ok THEN Goto("ellipse192") ELSE Raise("draw192")
    /\ UNCHANGED <<img192, img512, font, disk, stdout, ink, run, wrote,
                   fell, glyphFont, disk0, prev>>

\* line 8
Ellipse192 ==
    /\ pc = "ellipse192"
    /\ \E ok \in BOOLEAN :
         IF ok THEN /\ img192' = Ellipse(img192, Box192, WHITE)
                    /\ Goto("font192")
               ELSE /\ img192' = img192
                    /\ Raise("ellipse192")
    /\ UNCHANGED <<img512, font, disk, stdout, ink, run, wrote,
                   fell, glyphFont, disk0, prev>>

\* lines 10-13: try truetype, on any exception load_default (which may
\* itself raise, outside the try)
Font192 ==
    /\ pc = "font192"
    /\ \E loaded \in BOOLEAN :
         IF loaded
         THEN /\ font' = [kind |-> "truetype", size |-> FontSize192,
                          pass |-> Size192]
              /\ fell' = fell
              /\ Goto("text192")
         ELSE /\ fell' = fell \cup {Size192}
              /\ \E ok \in BOOLEAN :
                   IF ok
                   THEN /\ font' = [kind |-> "default",
                                    size |-> MaxDefaultGlyph,
                                    pass |-> Size192]
                        /\ Goto("text192")
                   ELSE /\ font' = font
                        /\ Raise("default192")
    /\ UNCHANGED <<img192, img512, disk, stdout, ink, run, wrote,
                   glyphFont, disk0, prev>>

\* line 14
Text192 ==
    /\ pc = "text192"
    /\ \E ok \in BOOLEAN :
         IF ok THEN /\ img192' = Text(img192, Anchor192, GlyphFill, font,
                                      ink[Face(font)])
                    /\ glyphFont' = [glyphFont EXCEPT ![Size192] = font]
                    /\ Goto("save192")
               ELSE /\ img192' = img192
                    /\ glyphFont' = glyphFont
                    /\ Raise("text192")
    /\ UNCHANGED <<img512, font, disk, stdout, ink, run, wrote,
                   fell, disk0, prev>>

\* a file that exists is not written again
Save_keep(img, path, step, next) ==
    \E ok \in BOOLEAN :
      IF ok THEN /\ disk' = IF Exists(disk[path]) THEN disk
                            ELSE [disk EXCEPT ![path] = Png(img)]
                 /\ wrote' = wrote \cup {path}
                 /\ Goto(next)
            ELSE /\ \E left \in {disk[path], Partial} :
                      disk' = [disk EXCEPT ![path] = left]
                 /\ wrote' = wrote
                 /\ Raise(step)

\* img.save(path): on success the file holds the canvas; on failure the
\* file is as it was (it could not be opened) or is left truncated
Save(img, path, step, next) ==
    \E ok \in BOOLEAN :
      IF ok THEN /\ disk' = [disk EXCEPT ![path] = Png(img)]
                 /\ wrote' = wrote \cup {path}
                 /\ Goto(next)
            ELSE /\ \E left \in {disk[path], Partial} :
                      disk' = [disk EXCEPT ![path] = left]
                 /\ wrote' = wrote
                 /\ Raise(step)

\* a failed first write is swallowed and the script goes on
Save192_continue ==
    /\ pc = "save192"
    /\ \E ok \in BOOLEAN :
         IF ok THEN /\ disk' = [disk EXCEPT ![Path192] = Png(img192)]
                    /\ wrote' = wrote \cup {Path192}
                    /\ Goto("new512")
               ELSE /\ disk' = disk
                    /\ wrote' = wrote
                    /\ pc' = "new512"
                    /\ failed' = "save192"
    /\ UNCHANGED <<img192, img512, font, stdout, ink, run,
                   fell, glyphFont, disk0, prev>>

\* line 15
Save192 ==
    /\ pc = "save192"
    /\ Save(img192, Path192, "save192", "new512")
    /\ UNCHANGED <<img192, img512, font, stdout, ink, run,
                   fell, glyphFont, disk0, prev>>

\* line 18
New512 ==
    /\ pc = "new512"
    /\ \E ok \in BOOLEAN :
         IF ok THEN /\ img512' = NewImage(Size512, Size512, BG)
                    /\ Goto("draw512")
               ELSE /\ img512' = img512
                    /\ Raise("new512")
    /\ UNCHANGED <<img192, font, disk, stdout, ink, run, wrote,
                   fell, glyphFont, disk0, prev>>

\* line 19
Draw512 ==
    /\ pc = "draw512"
    /\ \E ok \in BOOLEAN : IF ok THEN Goto("ellipse512") ELSE Raise("draw512")
    /\ UNCHANGED <<img192, img512, font, disk, stdout, ink, run, wrote,
                   fell, glyphFont, disk0, prev>>

\* line 20
Ellipse512 ==
    /\ pc = "ellipse512"
    /\ \E ok \in BOOLEAN :
         IF ok THEN /\ img512' = Ellipse(img512, Box512, WHITE)
                    /\ Goto("font512")
               ELSE /\ img512' = img512
                    /\ Raise("ellipse512")
    /\ UNCHANGED <<img192, font, disk, stdout, ink, run, wrote,
                   fell, glyphFont, disk0, prev>>

\* the 512 load is not guarded: its failure ends the run
Font512_nocatch ==
    /\ pc = "font512"
    /\ \E loaded \in BOOLEAN :
         IF loaded
         THEN /\ font' = [kind |-> "truetype", size |-> FontSize512,
                          pass |-> Size512]
              /\ fell' = fell
              /\ Goto("text512")
         ELSE /\ fell' = fell \cup {Size512}
              /\ font' = font
              /\ Raise("font512")
    /\ UNCHANGED <<img192, img512, disk, stdout, ink, run, wrote,
                   glyphFont, disk0, prev>>

\* the 512 handler does not assign font: the 192 pass's font is kept
Font512_stale ==
    /\ pc = "font512"
    /\ \E loaded \in BOOLEAN :
         IF loaded
         THEN /\ font' = [kind |-> "truetype", size |-> FontSize512,
                          pass |-> Size512]
              /\ fell' = fell
              /\ Goto("text512")
         ELSE /\ fell' = fell \cup {Size512}
              /\ font' = font
              /\ Goto("text512")
    /\ UNCHANGED <<img192, img512, disk, stdout, ink, run, wrote,
                   glyphFont, disk0, prev>>

\* lines 21-24: the same variable font is assigned again, on both branches
Font512 ==
    /\ pc = "font512"
    /\ \E loaded \in BOOLEAN :
         IF loaded
         THEN /\ font' = [kind |-> "truetype", size |-> FontSize512,
                          pass |-> Size512]
              /\ fell' = fell
              /\ Goto("text512")
         ELSE /\ fell' = fell \cup {Size512}
              /\ \E ok \in BOOLEAN :
                   IF ok
                   THEN /\ font' = [kind |-> "default",
                                    size |-> MaxDefaultGlyph,
                                    pass |-> Size512]
                        /\ Goto("text512")
                   ELSE /\ font' = font
                        /\ Raise("default512")
    /\ UNCHANGED <<img192, img512, disk, stdout, ink, run, wrote,
                   glyphFont, disk0, prev>>

\* line 25
Text512 ==
    /\ pc = "text512"
    /\ \E ok \in BOOLEAN :
         IF ok THEN /\ img512' = Text(img512, Anchor512, GlyphFill, font,
                                      ink[Face(font)])
                    /\ glyphFont' = [glyphFont EXCEPT ![Size512] = font]
                    /\ Goto("save512")
               ELSE /\ img512' = img512
                    /\ glyphFont' = glyphFont
                    /\ Raise("text512")
    /\ UNCHANGED <<img192, font, disk, stdout, ink, run, wrote,
                   fell, disk0, prev>>

\* a failed second write is swallowed and the script goes on to print
Save512_swallow ==
    /\ pc = "save512"
    /\ \E ok \in BOOLEAN :
         IF ok THEN /\ disk' = [disk EXCEPT ![Path512] = Png(img512)]
                    /\ wrote' = wrote \cup {Path512}
                    /\ Goto("print")
               ELSE /\ disk' = disk
                    /\ wrote' = wrote
                    /\ Goto("print")
    /\ UNCHANGED <<img192, img512, font, stdout, ink, run,
                   fell, glyphFont, disk0, prev>>

\* the 192 canvas is saved a second time, to the 512 path
Save512_wrongimg ==
    /\ pc = "save512"
    /\ Save(img192, Path512, "save512", "print")
    /\ UNCHANGED <<img192, img512, font, stdout, ink, run,
                   fell, glyphFont, disk0, prev>>

\* line 26
Save512 ==
    /\ pc = "save512"
    /\ Save(img512, Path512, "save512", "print")
    /\ UNCHANGED <<img192, img512, font, stdout, ink, run,
                   fell, glyphFont, disk0, prev>>

\* the line reaches the output before the write raises
PrintDone_late ==
    /\ pc = "print"
    /\ \E ok \in BOOLEAN :
         IF ok THEN /\ stdout' = Append(stdout, Message)
                    /\ Goto("done")
               ELSE /\ stdout' = Append(stdout, Message)
                    /\ Raise("print")
    /\ UNCHANGED <<img192, img512, font, disk, ink, run, wrote,
                   fell, glyphFont, disk0, prev>>

\* line 28: print(Message); writing to standard output may raise
PrintDone ==
    /\ pc = "print"
    /\ \E ok \in BOOLEAN :
         IF ok THEN /\ stdout' = Append(stdout, Message)
                    /\ Goto("done")
               ELSE /\ stdout' = stdout
                    /\ Raise("print")
    /\ UNCHANGED <<img192, img512, font, disk, ink, run, wrote,
                   fell, glyphFont, disk0, prev>>

Terminated == pc \in {"done", "error"}

\* the script is invoked again, as a new process, on the same directory
Rerun ==
    /\ Terminated
    /\ run < MaxRuns
    /\ run' = run + 1
    /\ prev' = IF pc = "done"
               THEN [valid |-> TRUE, obs |-> Observe(disk),
                     fonts |-> glyphFont]
               ELSE NoPrev
    /\ pc' = "import"
    /\ img192' = NoImg
    /\ img512' = NoImg
    /\ font' = NoFont
    /\ stdout' = <<>>
    /\ wrote' = {}
    /\ failed' = "none"
    /\ fell' = {}
    /\ glyphFont' = NoGlyphs
    /\ disk0' = disk
    /\ UNCHANGED <<disk, ink>>

Next ==
    \/ Import
    \/ New192
    \/ Draw192
    \/ Ellipse192
    \/ Font192
    \/ Text192
    \/ Save192
    \/ New512
    \/ Draw512
    \/ Ellipse512
    \/ Font512
    \/ Text512
    \/ Save512
    \/ PrintDone
    \/ Rerun

Spec == Init /\ [][Next]_vars

PathOf(s) == IF s = Size192 THEN Path192 ELSE Path512
Canvas(s) == IF s = Size192 THEN img192 ELSE img512
\* the glyph of pass s has been drawn
Drawn(s) == glyphFont[s] # NoFont
\* the circle of pass s has been drawn and its glyph not yet
CircleOnly(s) == Canvas(s).box # NoBox /\ ~Drawn(s)

\* ====================================================================
\* C1: in every run the confirmation line is printed at most once, and
\* only when both icon files have been written by that run and no step
\* of it has failed.
C1_PrintedOnceAfterBothWrites ==
    /\ Len(stdout) <= 1
    /\ stdout # <<>> =>
         /\ stdout = <<Message>>
         /\ wrote = Paths
         /\ failed = "none"
         /\ \A p \in Paths : disk[p].kind = "png"
    /\ failed \in {"save192", "save512"} => stdout = <<>>
    /\ pc \notin {"done", "error"} => stdout = <<>>

C1_Witness == pc = "done" /\ stdout = <<Message>> /\ wrote = Paths

\* C2: a failed load of the scalable font, in either pass, is never the
\* step that ends the run: the glyph of that pass is drawn with the default
\* font, and a run in which nothing else fails is never stuck and ends
\* "done" with both files written and the message printed.
C2_FontFailureRecovered ==
    /\ failed \notin {"font192", "font512"}
    /\ \A s \in fell : Drawn(s) => glyphFont[s].kind = "default"
    /\ (pc = "error") = (failed # "none")
    /\ ~Terminated => ENABLED Next
    /\ (fell # {} /\ pc = "done") =>
         /\ wrote = Paths
         /\ \A s \in Passes : disk[PathOf(s)] = Png(Canvas(s))
         /\ stdout = <<Message>>

C2_Witness ==
    /\ pc = "done" /\ fell = Passes /\ stdout = <<Message>> /\ wrote = Paths

\* C3 (as stated): when the first write fails the run stops there, the
\* second icon is neither drawn nor written, nothing is printed, and at
\* most one of the two files exists afterwards.
C3_Original ==
    failed = "save192" =>
        /\ pc = "error"
        /\ img512 = NoImg
        /\ Path512 \notin wrote
        /\ stdout = <<>>
        /\ Cardinality(Existing(disk)) <= 1

\* C3 (amended): when the first write fails the run stops there, the
\* second icon is neither drawn nor written, nothing is printed, the 512
\* file is exactly what it was before the run, and at most one file exists
\* that did not exist before the run (an incomplete 192 file).
C3_FirstWriteFailureStops ==
    failed = "save192" =>
        /\ pc = "error"
        /\ img512 = NoImg
        /\ ~Drawn(Size512)
        /\ wrote = {}
        /\ stdout = <<>>
        /\ disk[Path512] = disk0[Path512]
        /\ disk[Path192] \in {disk0[Path192], Partial}
        /\ Existing(disk) \ Existing(disk0) \subseteq {Path192}

C3_Witness ==
    /\ failed = "save192"
    /\ disk[Path192] = Partial
    /\ Exists(disk[Path512])

\* C4 (as stated): a terminated run either printed the message and ended
\* cleanly with both files valid on disk, or ended in an unhandled error
\* with at most one of the two files on disk.
C4_Original ==
    Terminated =>
        \/ /\ pc = "done"
           /\ stdout = <<Message>>
           /\ \A s \in Passes : disk[PathOf(s)] = Png(Canvas(s))
        \/ /\ pc = "error"
           /\ Cardinality(Existing(disk)) <= 1

\* C4 (amended): a terminated run either printed the message and ended
\* cleanly with both files valid on disk, or ended in an unhandled error
\* without the message; a run that ended in an error has written zero or
\* one file, or both when the failing step is the print, and files that
\* existed before the run may still exist.
C4_TwoOutcomes ==
    Terminated =>
        \/ /\ pc = "done"
           /\ failed = "none"
           /\ stdout = <<Message>>
           /\ wrote = Paths
           /\ \A s \in Passes : disk[PathOf(s)] = Png(Canvas(s))
        \/ /\ pc = "error"
           /\ failed # "none"
           /\ stdout = <<>>
           /\ (wrote = Paths) = (failed = "print")
           /\ \A p \in Paths \ wrote : disk[p] \in {disk0[p], Partial}

C4_Witness ==
    /\ pc = "error" /\ failed = "print" /\ wrote = Paths
    /\ \A p \in Paths : disk[p].kind = "png"

\* C5: after a successful run each file holds the canvas of its own size,
\* S x S; a canvas keeps the dimensions it was allocated with through every
\* drawing step, and a file written by the run holds the canvas of its size.
C5_FilesHoldTheirCanvas ==
    /\ \A s \in Passes :
         /\ Canvas(s) # NoImg => Canvas(s).w = s /\ Canvas(s).h = s
         /\ PathOf(s) \in wrote =>
              /\ disk[PathOf(s)] = Png(Canvas(s))
              /\ disk[PathOf(s)].img.w = s
              /\ disk[PathOf(s)].img.h = s
    /\ pc = "done" => wrote = Paths

C5_Witness ==
    /\ pc = "done"
    /\ disk[Path192].img.w = Size192
    /\ disk[Path512].img.w = Size512

\* C6 (as stated): once the circle and the glyph have been drawn, the
\* centre pixel of the canvas is white, whichever font was used.
C6_Original ==
    \A s \in Passes : Drawn(s) => Canvas(s).px["center"] = WHITE

\* C6 (amended): the centre pixel is white once the circle has been drawn;
\* once the glyph has been drawn it is white where the glyph does not cover
\* it and has the glyph's colour #6b21a8 where it does, whichever font was
\* used.
C6_CenterWhiteOrGlyph ==
    \A s \in Passes :
        /\ CircleOnly(s) => Canvas(s).px["center"] = WHITE
        /\ Drawn(s) =>
             Canvas(s).px["center"] =
                 IF ink[Face(glyphFont[s])] THEN GlyphFill ELSE WHITE

C6_Witness ==
    /\ pc = "done"
    /\ glyphFont[Size192].kind = "truetype"
    /\ glyphFont[Size512].kind = "default"
    /\ disk[Path192].img.px["center"] = GlyphFill
    /\ disk[Path512].img.px["center"] = WHITE

\* C7: the corner pixel (0,0) of each canvas, and of each file written,
\* has the background colour #6b21a8: neither the ellipse nor the glyph
\* changes the corners or the pixels outside the circle's bounding box.
C7_CornerKeepsBackground ==
    \A s \in Passes :
        /\ Canvas(s) # NoImg =>
             \A n \in {"corner", "far", "outside"} : Canvas(s).px[n] = BG
        /\ PathOf(s) \in wrote => disk[PathOf(s)].img.px["corner"] = BG

C7_Witness ==
    /\ pc = "done"
    /\ \A s \in Passes : ink[Face(glyphFont[s])]
    /\ disk[Path192].img.px["corner"] = BG
    /\ disk[Path512].img.px["corner"] = BG

\* C8 (as stated): after two successful runs in succession the dimensions,
\* the corner colour and the centre colour of each file are what they were
\* after the first, whatever files existed before.
C8_Original ==
    (prev.valid /\ pc = "done") => Observe(disk) = prev.obs

\* C8 (amended): after two successful runs in succession both files have
\* been overwritten by the second, and the dimensions and the corner colour
\* of each file are what they were after the first, whatever files existed
\* before; the centre colour is too when the pass resolved the same font in
\* both runs.
C8_SecondRunSameResult ==
    /\ pc = "done" => \A s \in Passes : disk[PathOf(s)] = Png(Canvas(s))
    /\ (prev.valid /\ pc = "done") =>
         \A s \in Passes :
            LET now == Observe(disk)[PathOf(s)]
                was == prev.obs[PathOf(s)]
            IN  /\ now.kind = was.kind
                /\ now.w = was.w
                /\ now.h = was.h
                /\ now.corner = was.corner
                /\ Face(glyphFont[s]) = Face(prev.fonts[s]) =>
                     now.center = was.center

C8_Witness ==
    /\ prev.valid
    /\ pc = "done"
    /\ Observe(disk) = prev.obs
    /\ disk0[Path192].kind = "png"

\* C9: the font used to draw the 512 glyph is one resolved in the 512 pass
\* (the scalable font at size 160, or the default font when that load
\* failed), and the font used to draw the 192 glyph is one resolved in the
\* 192 pass, for every combination of load outcomes.
C9_PassesResolveOwnFont ==
    /\ \A s \in Passes :
         Drawn(s) =>
            /\ glyphFont[s].pass = s
            /\ (s \in fell) = (glyphFont[s].kind = "default")
            /\ (s \notin fell) = (glyphFont[s].kind = "truetype")
    /\ Drawn(Size192) /\ glyphFont[Size192].kind = "truetype" =>
         glyphFont[Size192].size = FontSize192
    /\ Drawn(Size512) /\ glyphFont[Size512].kind = "truetype" =>
         glyphFont[Size512].size = FontSize512
    /\ pc = "text512" => font.pass = Size512

C9_Witness ==
    /\ Drawn(Size512)
    /\ glyphFont[Size192].kind = "truetype"
    /\ glyphFont[Size512].kind = "default"

\* twice the radius of the circle drawn on a canvas
Diameter(img) == img.box[3] - img.box[1]
\* the circle's bounding box is centred on the midpoint of the canvas
Centered(img) ==
    /\ img.box[1] + img.box[3] = img.w
    /\ img.box[2] + img.box[4] = img.h
    /\ img.box[3] - img.box[1] = img.box[4] - img.box[2]

\* C10 (as stated): the circle's bounding box is centred on the canvas
\* midpoint (S/2, S/2), the glyph's anchor, and its radius is S/3 to within
\* a pixel.
C10_Original ==
    \A s \in Passes :
        Canvas(s).box # NoBox =>
            /\ Centered(Canvas(s))
            /\ Abs(3 * Diameter(Canvas(s)) - 2 * s) <= 6

\* C10 (amended): the circle's bounding box is centred on the canvas
\* midpoint (S/2, S/2), the glyph's anchor, and its radius is S/6 to within
\* a pixel (its diameter is S/3 approximately): the leftmost pixel of the
\* circle, a third of the way in, is white and the pixel left of it is not.
C10_CircleCenteredRadiusSixth ==
    /\ \A s \in Passes :
        Canvas(s).box # NoBox =>
            /\ Centered(Canvas(s))
            /\ Abs(3 * Diameter(Canvas(s)) - s) <= 6
            /\ Canvas(s).px["outside"] = BG
            /\ Canvas(s).px["edge"] = WHITE
            /\ Canvas(s).px["boxCorner"] = BG
            /\ CircleOnly(s) => Canvas(s).px["center"] = WHITE
    /\ img192.box # NoBox =>
         /\ img192.box = <<64, 64, 128, 128>>
         /\ Anchor192 = SamplePos("center", img192.w, img192.h)
    /\ img512.box # NoBox =>
         /\ img512.box = <<170, 170, 342, 342>>
         /\ Anchor512 = SamplePos("center", img512.w, img512.h)

C10_Witness ==
    /\ CircleOnly(Size512)
    /\ img192.box = Box192
    /\ img512.box = Box512

====
